---- MODULE Spec2Model ----
(***************************************************************************)
(* Model of the flake registry commands of src/nix/flake.cc: the User      *)
(* registry file and the commands that rewrite it (add, remove, pin), the  *)
(* read-only Global registry, the upstream repositories a pin resolves     *)
(* against, and the layered alias resolution the evaluator performs.       *)
(***************************************************************************)
EXTENDS Integers, Sequences, FiniteSets

VARIABLES
    userFile,    \* the persisted User registry: the records of the file at getUserRegistryPath()
    globalReg,   \* the Global registry (evalState->getGlobalFlakeRegistry())
    head,        \* upstream: the current revision of every repository
    last,        \* the command that ran last: its arguments, the file it found, its outcome
    overrides,   \* the Overrides registry (registries[FLAG_REGISTRY])
    query,       \* the reference handed to resolveAlias
    result,      \* what resolveAlias returned for `query`
    lockFiles,   \* how often the lock file of every local flake has been rewritten
    lastUpdate,  \* the update command that ran last: its argument, the lock files it found, its outcome
    flakeDeps,   \* the resolved graph: ResolvedFlake::flakeDeps of every node
    nonFlakeDeps,\* the resolved graph: ResolvedFlake::nonFlakeDeps of every node
    todo,        \* the work queue of CmdFlakeDeps::run
    emitted,     \* what CmdFlakeDeps::run has printed, in order
    depsPc,      \* where CmdFlakeDeps::run is
    failedAt,    \* the node whose resolution failed, when resolveFlake() failed
    procs,       \* the registry commands running side by side: arguments, position, what each read
    overlapped   \* whether one command read the User registry while another held an unwritten copy

registryVars == <<userFile, globalReg, head, last, overrides, query, result>>
updateVars == <<lockFiles, lastUpdate>>
depsVars == <<flakeDeps, nonFlakeDeps, todo, emitted, depsPc, failedAt>>
procVars == <<procs, overlapped>>

vars == <<userFile, globalReg, head, last, overrides, query, result,
          lockFiles, lastUpdate, flakeDeps, nonFlakeDeps, todo, emitted, depsPc, failedAt,
          procs, overlapped>>

(***************************************************************************)
(* Bounds of the model.                                                    *)
(***************************************************************************)
MaxRev == 2      \* revisions an upstream repository goes through
MaxDepth == 2    \* the resolver's depth bound (the spec's "e.g. 100")

(***************************************************************************)
(* References.  A FlakeUri is the text the user types: a locator, followed *)
(* by a revision when one is given.  A FlakeRef is the parsed value.       *)
(***************************************************************************)
NoRev == 0
Revs == 1..MaxRev

AliasNames == {"a", "b"}
UriLocators == {"github:o/r"}
PathLocators == {"/p"}
Locators == AliasNames \cup UriLocators \cup PathLocators

\* The order std::map keeps its FlakeRef keys in: by locator, then by revision.
LocatorOrder == <<"/p", "a", "b", "github:o/r">>

FlakeUris == {<<l>> : l \in Locators} \cup {<<l, r>> : l \in UriLocators, r \in Revs}

KindOf(locator) ==
    IF locator \in AliasNames THEN "Alias"
    ELSE IF locator \in PathLocators THEN "Path"
    ELSE "DirectURI"

\* FlakeRef::FlakeRef(const std::string & uri): parse the text.
FlakeRef(uri) ==
    [kind |-> KindOf(uri[1]),
     locator |-> uri[1],
     rev |-> IF Len(uri) = 2 THEN uri[2] ELSE NoRev]

\* FlakeRef::to_string(): format the value.
to_string(ref) ==
    IF ref.rev = NoRev THEN <<ref.locator>> ELSE <<ref.locator, ref.rev>>

FlakeRefs == {FlakeRef(u) : u \in FlakeUris}
AliasRefs == {r \in FlakeRefs : r.kind = "Alias"}

(***************************************************************************)
(* Registries.  FlakeRegistry::entries is a std::map<FlakeRef, FlakeRef>:  *)
(* a function whose domain is the set of keys.                             *)
(***************************************************************************)
EmptyRegistry == [k \in {} |-> FlakeRef(<<"a">>)]

find(entries, key) == key \in DOMAIN entries

erase(entries, key) == [k \in DOMAIN entries \ {key} |-> entries[k]]

insert_or_assign(entries, key, value) ==
    [k \in DOMAIN entries \cup {key} |-> IF k = key THEN value ELSE entries[k]]

LocatorRank(locator) ==
    CHOOSE i \in 1..Len(LocatorOrder) : LocatorOrder[i] = locator

RefLess(r1, r2) ==
    \/ LocatorRank(r1.locator) < LocatorRank(r2.locator)
    \/ r1.locator = r2.locator /\ r1.rev < r2.rev

MinKey(keys) == CHOOSE k \in keys : \A o \in keys \ {k} : RefLess(k, o)

\* One record of the registry file.
Record(key, value) == [alias |-> to_string(key), uri |-> to_string(value)]

RECURSIVE writeRegistry(_)
\* writeRegistry(registry, path): the records of the entries, in key order.
writeRegistry(entries) ==
    IF DOMAIN entries = {} THEN <<>>
    ELSE LET k == MinKey(DOMAIN entries)
         IN  <<Record(k, entries[k])>> \o writeRegistry(erase(entries, k))

RECURSIVE readRegistry(_)
\* readRegistry(path): parse the records of the file into the entries.
readRegistry(file) ==
    IF file = <<>> THEN EmptyRegistry
    ELSE insert_or_assign(readRegistry(Tail(file)),
                          FlakeRef(Head(file).alias), FlakeRef(Head(file).uri))

(***************************************************************************)
(* Alias resolution (spec 4.1).  The registries are probed in the order of *)
(* the vector getFlakeRegistries() returns: FLAG_REGISTRY, USER_REGISTRY,  *)
(* GLOBAL_REGISTRY.                                                        *)
(***************************************************************************)
FLAG_REGISTRY == 1
USER_REGISTRY == 2
GLOBAL_REGISTRY == 3

getFlakeRegistries(flags, file, global) ==
    [i \in {FLAG_REGISTRY, USER_REGISTRY, GLOBAL_REGISTRY} |->
        IF i = FLAG_REGISTRY THEN flags
        ELSE IF i = USER_REGISTRY THEN readRegistry(file)
        ELSE global]

Resolved(ref) == [error |-> "none", ref |-> ref]
Failed(error, ref) == [error |-> error, ref |-> ref]

\* The layers holding an entry for ref.
Holders(ref, registries) == {i \in 1..Len(registries) : find(registries[i], ref)}

\* A resolver probing the layers in the reverse order: Global, then User, then Overrides.
LastHolder(ref, registries) ==
    CHOOSE i \in Holders(ref, registries) : \A j \in Holders(ref, registries) : i >= j

\* The first layer, in precedence order, holding an entry for ref.
FirstHolder(ref, registries) ==
    CHOOSE i \in Holders(ref, registries) : \A j \in Holders(ref, registries) : i <= j

\* A resolver that gives up at the depth bound and returns the alias it has reached.
DepthExceededReturnsAlias(ref) == Resolved(ref)

\* What resolveAlias does when the depth bound is exceeded.
DepthExceeded(ref) == Failed("RegistryCycleError", ref)

\* A resolver that returns the alias it has reached when no layer has an entry for it.
NoEntryReturnsAlias(ref) == Resolved(ref)

\* What resolveAlias does when no layer has an entry for the alias.
NoEntry(ref) == Failed("UnresolvedAliasError", ref)

RECURSIVE resolveAliasProbingAll(_, _, _)
\* A resolver that probes the registries for every reference, direct ones included,
\* and returns a direct reference only when no layer has an entry keyed by it.
resolveAliasProbingAll(ref, registries, depth) ==
    IF depth > MaxDepth THEN DepthExceeded(ref)
    ELSE IF Holders(ref, registries) = {}
    THEN (IF ref.kind # "Alias" THEN Resolved(ref) ELSE NoEntry(ref))
    ELSE resolveAliasProbingAll(registries[FirstHolder(ref, registries)][ref],
                                registries, depth + 1)

RECURSIVE resolveAlias(_, _, _)
resolveAlias(ref, registries, depth) ==
    IF ref.kind # "Alias" THEN Resolved(ref)
    ELSE IF depth > MaxDepth THEN DepthExceeded(ref)
    ELSE IF Holders(ref, registries) = {} THEN NoEntry(ref)
    ELSE resolveAlias(registries[FirstHolder(ref, registries)][ref], registries, depth + 1)

(***************************************************************************)
(* The evaluator and the fetcher, as pin uses them:                        *)
(* the resolvedRef of the sourceInfo of getFlake(evalState, ref, true).    *)
(***************************************************************************)
\* The fetcher: the concrete reference of a direct one, its revision populated.
Materialize(ref, hd) ==
    IF ref.rev = NoRev /\ ref.locator \in DOMAIN hd
    THEN [ref EXCEPT !.rev = hd[ref.locator]]
    ELSE ref

getFlake(ref, registries, hd, fetchOk) ==
    LET r == resolveAlias(ref, registries, 0)
    IN  IF r.error # "none" THEN Failed(r.error, ref)
        ELSE IF ~fetchOk THEN Failed("FetchError", ref)
        ELSE Resolved(Materialize(r.ref, hd))

(***************************************************************************)
(* The commands.  Each operator gives what the command leaves behind:      *)
(* file, the registry file; written, whether writeRegistry ran; error, the *)
(* error thrown ("none" when the command succeeds).                        *)
(***************************************************************************)
Outcome(file, written, error, branch) ==
    [file |-> file, written |-> written, error |-> error, branch |-> branch]

\* An add that inserts its entry only when the alias has none (std::map::insert
\* without the erase).
CmdFlakeAdd_run_Insert(file, alias, uri) ==
    LET aliasRef == FlakeRef(alias)
        userRegistry == readRegistry(file)
        entries == IF find(userRegistry, aliasRef) THEN userRegistry
                   ELSE insert_or_assign(userRegistry, aliasRef, FlakeRef(uri))
    IN  Outcome(writeRegistry(entries), TRUE, "none", "user")

\* An add that appends its record to the file instead of rewriting the registry.
CmdFlakeAdd_run_Append(file, alias, uri) ==
    Outcome(file \o <<Record(FlakeRef(alias), FlakeRef(uri))>>, TRUE, "none", "user")

\* An add that writes a registry holding its entry alone.
CmdFlakeAdd_run_Alone(file, alias, uri) ==
    Outcome(writeRegistry(insert_or_assign(EmptyRegistry, FlakeRef(alias), FlakeRef(uri))),
            TRUE, "none", "user")

\* CmdFlakeAdd::run
CmdFlakeAdd_run(file, alias, uri) ==
    LET aliasRef == FlakeRef(alias)
        userRegistry == readRegistry(file)
        erased == erase(userRegistry, aliasRef)
        entries == insert_or_assign(erased, aliasRef, FlakeRef(uri))
    IN  Outcome(writeRegistry(entries), TRUE, "none", "user")

\* A remove that fails when the alias has no entry.
CmdFlakeRemove_run_Strict(file, alias) ==
    LET userRegistry == readRegistry(file)
    IN  IF find(userRegistry, FlakeRef(alias))
        THEN Outcome(writeRegistry(erase(userRegistry, FlakeRef(alias))), TRUE, "none", "user")
        ELSE Outcome(file, FALSE, "UnknownAliasError", "user")

\* A remove that erases the entry from the registry it read and never writes it back.
CmdFlakeRemove_run_NoWrite(file, alias) ==
    Outcome(file, FALSE, "none", "user")

\* CmdFlakeRemove::run
CmdFlakeRemove_run(file, alias) ==
    LET userRegistry == readRegistry(file)
        entries == erase(userRegistry, FlakeRef(alias))
    IN  Outcome(writeRegistry(entries), TRUE, "none", "user")

\* A pin that resolves the Global registry's target of the alias when there is one,
\* also when the User registry has the alias.
PinUserEntry_GlobalFirst(file, global, hd, alias, fetchOk) ==
    LET userRegistry == readRegistry(file)
        it == FlakeRef(alias)
        target == IF find(global, it) THEN global[it] ELSE userRegistry[it]
        got == getFlake(target, getFlakeRegistries(EmptyRegistry, file, global), hd, fetchOk)
    IN  IF got.error # "none" THEN Outcome(file, FALSE, got.error, "user")
        ELSE Outcome(writeRegistry([userRegistry EXCEPT ![it] = got.ref]),
                     TRUE, "none", "user")

\* A pin that writes the resolved reference without its revision.
PinUserEntry_Floating(file, global, hd, alias, fetchOk) ==
    LET userRegistry == readRegistry(file)
        it == FlakeRef(alias)
        got == getFlake(userRegistry[it], getFlakeRegistries(EmptyRegistry, file, global),
                        hd, fetchOk)
    IN  IF got.error # "none" THEN Outcome(file, FALSE, got.error, "user")
        ELSE Outcome(writeRegistry([userRegistry EXCEPT ![it] = [got.ref EXCEPT !.rev = NoRev]]),
                     TRUE, "none", "user")

\* CmdFlakePin::run, the branch taken when the User registry has the alias.
PinUserEntry(file, global, hd, alias, fetchOk) ==
    LET userRegistry == readRegistry(file)
        it == FlakeRef(alias)
        got == getFlake(userRegistry[it], getFlakeRegistries(EmptyRegistry, file, global),
                        hd, fetchOk)
    IN  IF got.error # "none" THEN Outcome(file, FALSE, got.error, "user")
        ELSE Outcome(writeRegistry([userRegistry EXCEPT ![it] = got.ref]),
                     TRUE, "none", "user")

\* A pin that inserts the Global registry's target as it is, not its resolution.
PinGlobalEntry_Unresolved(file, global, hd, alias, fetchOk) ==
    LET userRegistry == readRegistry(file)
        it == FlakeRef(alias)
        newRef == getFlake(global[it], getFlakeRegistries(EmptyRegistry, file, global),
                           hd, fetchOk)
    IN  IF newRef.error # "none" THEN Outcome(file, FALSE, newRef.error, "global")
        ELSE Outcome(writeRegistry(insert_or_assign(userRegistry, FlakeRef(alias), global[it])),
                     TRUE, "none", "global")

\* A pin that inserts the new entry under the resolved reference, not under the alias.
PinGlobalEntry_ResolvedKey(file, global, hd, alias, fetchOk) ==
    LET userRegistry == readRegistry(file)
        it == FlakeRef(alias)
        newRef == getFlake(global[it], getFlakeRegistries(EmptyRegistry, file, global),
                           hd, fetchOk)
    IN  IF newRef.error # "none" THEN Outcome(file, FALSE, newRef.error, "global")
        ELSE Outcome(writeRegistry(insert_or_assign(userRegistry, newRef.ref, newRef.ref)),
                     TRUE, "none", "global")

\* A pin that inserts the alias with the Global registry's target and writes the
\* registry before it resolves the target.
PinGlobalEntry_WriteFirst(file, global, hd, alias, fetchOk) ==
    LET userRegistry == readRegistry(file)
        it == FlakeRef(alias)
        newRef == getFlake(global[it], getFlakeRegistries(EmptyRegistry, file, global),
                           hd, fetchOk)
    IN  IF newRef.error # "none"
        THEN Outcome(writeRegistry(insert_or_assign(userRegistry, FlakeRef(alias), global[it])),
                     TRUE, newRef.error, "global")
        ELSE Outcome(writeRegistry(insert_or_assign(userRegistry, FlakeRef(alias), newRef.ref)),
                     TRUE, "none", "global")

\* CmdFlakePin::run, the branch taken when only the Global registry has the alias.
PinGlobalEntry(file, global, hd, alias, fetchOk) ==
    LET userRegistry == readRegistry(file)
        it == FlakeRef(alias)
        newRef == getFlake(global[it], getFlakeRegistries(EmptyRegistry, file, global),
                           hd, fetchOk)
    IN  IF newRef.error # "none" THEN Outcome(file, FALSE, newRef.error, "global")
        ELSE Outcome(writeRegistry(insert_or_assign(userRegistry, FlakeRef(alias), newRef.ref)),
                     TRUE, "none", "global")

\* A pin that writes the registry back and succeeds when no registry has the alias.
CmdFlakePin_run_NoThrow(file, global, hd, alias, fetchOk) ==
    IF find(readRegistry(file), FlakeRef(alias))
    THEN PinUserEntry(file, global, hd, alias, fetchOk)
    ELSE IF find(global, FlakeRef(alias))
    THEN PinGlobalEntry(file, global, hd, alias, fetchOk)
    ELSE Outcome(writeRegistry(readRegistry(file)), TRUE, "none", "none")

\* A pin that assigns the resolved reference through the iterator it found the alias
\* with, which points into the entries of the Global registry.
GlobalAfterPin_Assigned(global, file, hd, alias, fetchOk) ==
    LET it == FlakeRef(alias)
        newRef == getFlake(global[it], getFlakeRegistries(EmptyRegistry, file, global),
                           hd, fetchOk)
    IN  IF ~find(readRegistry(file), it) /\ find(global, it) /\ newRef.error = "none"
        THEN [global EXCEPT ![it] = newRef.ref]
        ELSE global

\* The Global registry CmdFlakePin::run leaves: its entries are searched and the target
\* of the alias is read, none is assigned and the registry is never written.
GlobalAfterPin(global, file, hd, alias, fetchOk) == global

\* CmdFlakePin::run
CmdFlakePin_run(file, global, hd, alias, fetchOk) ==
    IF find(readRegistry(file), FlakeRef(alias))
    THEN PinUserEntry(file, global, hd, alias, fetchOk)
    ELSE IF find(global, FlakeRef(alias))
    THEN PinGlobalEntry(file, global, hd, alias, fetchOk)
    ELSE Outcome(file, FALSE, "UnknownAliasError", "none")

(***************************************************************************)
(* The state space: the registries a run starts from and the arguments the *)
(* commands are given.                                                     *)
(***************************************************************************)
Registries(keys, targets) == UNION {[d -> targets] : d \in SUBSET keys}

UriRefs == {r \in FlakeRefs : r.kind = "DirectURI"}
RegistryKeys == AliasRefs
RegistryTargets == AliasRefs \cup UriRefs
\* The targets of the registries a run finds: the aliases, the URI on its own and the
\* URI at its first revision.
InitialTargets == AliasRefs \cup {r \in UriRefs : r.rev <= 1}

AliasArgs == {to_string(r) : r \in RegistryKeys}
UriArgs == {to_string(r) : r \in RegistryTargets}

InitialHead == [l \in UriLocators |-> 1]

NoCommand ==
    [cmd |-> "none", alias |-> <<>>, uri |-> <<>>, fetchOk |-> TRUE, pre |-> <<>>,
     global |-> EmptyRegistry, head |-> InitialHead, written |-> FALSE, error |-> "none",
     branch |-> "none"]

Ran(cmd, alias, uri, fetchOk, out) ==
    [cmd |-> cmd, alias |-> alias, uri |-> uri, fetchOk |-> fetchOk, pre |-> userFile,
     global |-> globalReg, head |-> head, written |-> out.written, error |-> out.error,
     branch |-> out.branch]

NoResult == Failed("pending", FlakeRef(<<"a">>))

(***************************************************************************)
(* The state the other commands start from, and rest in while the commands *)
(* of one specification run.                                               *)
(***************************************************************************)
RelativeLocators == {".", "./q"}
LocalLocators == PathLocators \cup RelativeLocators

NoLocks == [l \in LocalLocators |-> 0]
NoUpdate == [uri |-> <<>>, evalOk |-> TRUE, pre |-> NoLocks, ran |-> FALSE, error |-> "none"]

UpdateIdle == lockFiles = NoLocks /\ lastUpdate = NoUpdate

DepsIdle ==
    /\ flakeDeps = <<>> /\ nonFlakeDeps = <<>>
    /\ todo = <<>> /\ emitted = <<>> /\ depsPc = "idle" /\ failedAt = "none"

ProcsIdle == procs = <<>> /\ overlapped = FALSE

RegistryIdle ==
    /\ userFile = writeRegistry(EmptyRegistry)
    /\ globalReg = EmptyRegistry
    /\ head = InitialHead
    /\ last = NoCommand
    /\ overrides = EmptyRegistry
    /\ query = FlakeRef(<<"a">>)
    /\ result = NoResult

Init ==
    /\ userFile \in {writeRegistry(reg) : reg \in Registries(RegistryKeys, RegistryTargets)}
    /\ globalReg \in Registries(RegistryKeys, InitialTargets)
    /\ head = InitialHead
    /\ last = NoCommand
    /\ overrides = EmptyRegistry
    /\ query = FlakeRef(<<"a">>)
    /\ result = NoResult
    /\ UpdateIdle /\ DepsIdle /\ ProcsIdle

\* nix flake add <alias> <flake-uri>
Add(alias, uri) ==
    \E out \in {CmdFlakeAdd_run(userFile, alias, uri)} :
        /\ userFile' = out.file
        /\ last' = Ran("add", alias, uri, TRUE, out)
        /\ UNCHANGED <<globalReg, head, overrides, query, result>>
        /\ UNCHANGED <<updateVars, depsVars, procVars>>

\* nix flake remove <alias>
Remove(alias) ==
    \E out \in {CmdFlakeRemove_run(userFile, alias)} :
        /\ userFile' = out.file
        /\ last' = Ran("remove", alias, <<>>, TRUE, out)
        /\ UNCHANGED <<globalReg, head, overrides, query, result>>
        /\ UNCHANGED <<updateVars, depsVars, procVars>>

\* nix flake pin <alias>; fetchOk: whether the evaluator's fetch succeeds.
Pin(alias, fetchOk) ==
    \E out \in {CmdFlakePin_run(userFile, globalReg, head, alias, fetchOk)} :
        /\ userFile' = out.file
        /\ last' = Ran("pin", alias, <<>>, fetchOk, out)
        /\ globalReg' = GlobalAfterPin(globalReg, userFile, head, alias, fetchOk)
        /\ UNCHANGED <<head, overrides, query, result>>
        /\ UNCHANGED <<updateVars, depsVars, procVars>>

\* A new revision is pushed to an upstream repository.
UpstreamPush(locator) ==
    /\ head[locator] < MaxRev
    /\ head' = [head EXCEPT ![locator] = @ + 1]
    /\ UNCHANGED <<userFile, globalReg, last, overrides, query, result>>
    /\ UNCHANGED <<updateVars, depsVars, procVars>>

Next ==
    \/ \E alias \in AliasArgs, uri \in UriArgs : Add(alias, uri)
    \/ \E alias \in AliasArgs : Remove(alias)
    \/ \E alias \in AliasArgs, fetchOk \in BOOLEAN : Pin(alias, fetchOk)
    \/ \E locator \in UriLocators : UpstreamPush(locator)

Spec == Init /\ [][Next]_vars

(***************************************************************************)
(* Alias resolution on its own: the three registries and the reference are *)
(* drawn from every combination, and resolveAlias is applied.              *)
(***************************************************************************)
InitResolve ==
    /\ overrides \in Registries(RegistryKeys, InitialTargets)
    /\ userFile \in {writeRegistry(reg) : reg \in Registries(RegistryKeys, InitialTargets)}
    /\ globalReg \in Registries(RegistryKeys, InitialTargets)
    /\ query \in FlakeRefs
    /\ result = NoResult
    /\ head = InitialHead
    /\ last = NoCommand
    /\ UpdateIdle /\ DepsIdle /\ ProcsIdle

Resolve ==
    /\ result = NoResult
    /\ result' = resolveAlias(query, getFlakeRegistries(overrides, userFile, globalReg), 0)
    /\ UNCHANGED <<userFile, globalReg, head, last, overrides, query>>
    /\ UNCHANGED <<updateVars, depsVars, procVars>>

NextResolve == Resolve

SpecResolve == InitResolve /\ [][NextResolve]_vars

(***************************************************************************)
(* update.  FlakeCommand::getFlakeRef parses the argument, allowing a      *)
(* relative path when the text holds a '/' or is "."; CmdFlakeUpdate::run  *)
(* rewrites the lock file of a flake given by path and refuses any other.  *)
(***************************************************************************)
MaxUpdates == 2   \* rewrites of one lock file

\* The texts update is given: those of the registry commands, and relative paths.
UpdateUris == FlakeUris \cup {<<l>> : l \in RelativeLocators}

\* flakeUri.find('/') != std::string::npos: a revision follows its locator after a '/'.
ContainsSlash(flakeUri) ==
    Len(flakeUri) = 2 \/ flakeUri[1] \in {"github:o/r", "/p", "./q"}

\* FlakeRef::FlakeRef(const std::string & uri, bool allowRelative) with allowRelative
\* set: a relative path is a Path reference, any other text parses as it does without.
FlakeRefRelative(uri) ==
    IF uri[1] \in RelativeLocators
    THEN [kind |-> "Path", locator |-> uri[1], rev |-> NoRev]
    ELSE FlakeRef(uri)

getFlakeRef(flakeUri) ==
    IF ContainsSlash(flakeUri) \/ flakeUri = <<".">>
    THEN FlakeRefRelative(flakeUri)
    ELSE FlakeRef(flakeUri)

\* updateLockFile: rewrite the lock file of the flake at flakeRef, unless its
\* evaluation fails.
updateLockFile(locks, flakeRef, evalOk) ==
    IF evalOk
    THEN [locks |-> [locks EXCEPT ![flakeRef.locator] = @ + 1], ran |-> TRUE, error |-> "none"]
    ELSE [locks |-> locks, ran |-> TRUE, error |-> "EvalError"]

\* An update that takes every text getFlakeRef parsed as possibly relative for a
\* path: it runs updateLockFile on a remote URI too, where no lock file is found.
CmdFlakeUpdate_run_AnySlash(locks, flakeUri, evalOk) ==
    LET flakeRef == getFlakeRef(flakeUri) IN
    IF flakeRef.kind = "Path"
    THEN updateLockFile(locks, flakeRef, evalOk)
    ELSE IF ContainsSlash(flakeUri)
    THEN [locks |-> locks, ran |-> TRUE, error |-> "EvalError"]
    ELSE [locks |-> locks, ran |-> FALSE, error |-> "NotUpdatableError"]

CmdFlakeUpdate_run(locks, flakeUri, evalOk) ==
    LET flakeRef == getFlakeRef(flakeUri) IN
    IF flakeRef.kind = "Path"
    THEN updateLockFile(locks, flakeRef, evalOk)
    ELSE [locks |-> locks, ran |-> FALSE, error |-> "NotUpdatableError"]

InitUpdate == RegistryIdle /\ UpdateIdle /\ DepsIdle /\ ProcsIdle

Update(flakeUri, evalOk) ==
    /\ \E out \in {CmdFlakeUpdate_run(lockFiles, flakeUri, evalOk)} :
        /\ \A l \in LocalLocators : out.locks[l] <= MaxUpdates
        /\ lockFiles' = out.locks
        /\ lastUpdate' = [uri |-> flakeUri, evalOk |-> evalOk, pre |-> lockFiles,
                          ran |-> out.ran, error |-> out.error]
    /\ UNCHANGED <<registryVars, depsVars, procVars>>

NextUpdate == \E flakeUri \in UpdateUris, evalOk \in BOOLEAN : Update(flakeUri, evalOk)

SpecUpdate == InitUpdate /\ [][NextUpdate]_vars

(***************************************************************************)
(* deps.  CmdFlakeDeps::run resolves the flake it is given into a graph of *)
(* ResolvedFlake values and walks it with a std::queue: it prints the      *)
(* non-flake dependencies of the node it dequeues, then prints and         *)
(* enqueues each of its flake dependencies.                                *)
(***************************************************************************)
Root == "root"
FlakeIds == {"depA", "depB", "depC", "depD"}
Nodes == {Root} \cup FlakeIds

\* The order ResolvedFlake::flakeDeps, a std::map, is iterated in.
FlakeOrder == <<"depA", "depB", "depC", "depD">>

\* The nodes that may have a non-flake dependency.
NonFlakeOwners == {Root, "depA"}

RECURSIVE Reach(_, _, _)
\* The nodes reached from those of `from` over at most `hops` edges of g.
Reach(g, from, hops) ==
    IF hops = 0 THEN from
    ELSE Reach(g, from \cup UNION {g[n] : n \in from}, hops - 1)

\* A ResolvedFlake holds its dependencies by value: no flake is its own descendant.
Acyclic(g) ==
    \A f \in DOMAIN g : f \notin Reach(g, g[f], Cardinality(DOMAIN g))

\* The graphs resolveFlake() returns: the flake dependencies of every node.
ResolvedGraphs ==
    {[n \in Nodes |-> IF n = Root THEN r ELSE g[n]] :
        r \in SUBSET FlakeIds,
        g \in {h \in [FlakeIds -> SUBSET FlakeIds] : Acyclic(h)}}

\* resolveFlake(): resolve the root and, through it, every node of the graph; the
\* failure of any node reached fails the whole.
resolveFlake(g, failNode) ==
    IF failNode \in Reach(g, {Root}, Cardinality(Nodes))
    THEN [error |-> "EvalError", at |-> failNode]
    ELSE [error |-> "none", at |-> "none"]

\* A listing that resolves no more than the root before it starts.
CmdFlakeDeps_begin_Lazy(g, failNode) ==
    IF failNode = Root
    THEN [pc |-> "failed", todo |-> <<>>, failedAt |-> failNode]
    ELSE [pc |-> "run", todo |-> <<[node |-> Root, depth |-> 0]>>, failedAt |-> failNode]

\* todo.push(resolveFlake()): the queue the loop starts with, unless resolution throws.
CmdFlakeDeps_begin(g, failNode) ==
    LET resolved == resolveFlake(g, failNode) IN
    IF resolved.error # "none"
    THEN [pc |-> "failed", todo |-> <<>>, failedAt |-> resolved.at]
    ELSE [pc |-> "run", todo |-> <<[node |-> Root, depth |-> 0]>>, failedAt |-> "none"]

\* The flake dependencies of a node, in the order the loop iterates them.
FlakeDepsOf(g, node) == SelectSeq(FlakeOrder, LAMBDA f : f \in g[node])

\* printNonFlakeInfo for every non-flake dependency of the node dequeued.
PrintNonFlakes(nf, resFlake) ==
    [i \in 1..Len(nf[resFlake.node]) |->
        [kind |-> "nonFlake", id |-> nf[resFlake.node][i], depth |-> resFlake.depth + 1]]

\* printFlakeInfo for every flake dependency of the node dequeued.
PrintFlakes(g, resFlake) ==
    [i \in 1..Len(FlakeDepsOf(g, resFlake.node)) |->
        [kind |-> "flake", id |-> FlakeDepsOf(g, resFlake.node)[i],
         depth |-> resFlake.depth + 1]]

\* The ResolvedFlake values the loop pushes for the node dequeued.
Pushed(g, resFlake) ==
    [i \in 1..Len(FlakeDepsOf(g, resFlake.node)) |->
        [node |-> FlakeDepsOf(g, resFlake.node)[i], depth |-> resFlake.depth + 1]]

\* A loop over a std::stack: it takes the value pushed last.
DepsIteration_Stack(queue, g, nf) ==
    LET resFlake == queue[Len(queue)] IN
    [todo |-> SubSeq(queue, 1, Len(queue) - 1) \o Pushed(g, resFlake),
     printed |-> PrintNonFlakes(nf, resFlake) \o PrintFlakes(g, resFlake)]

\* A loop that prints the flake dependencies of the node dequeued and pushes none.
DepsIteration_NoPush(queue, g, nf) ==
    LET resFlake == Head(queue) IN
    [todo |-> Tail(queue),
     printed |-> PrintNonFlakes(nf, resFlake) \o PrintFlakes(g, resFlake)]

\* One iteration of the while loop: todo.front(), todo.pop(), the two for loops.
DepsIteration(queue, g, nf) ==
    LET resFlake == Head(queue) IN
    [todo |-> Tail(queue) \o Pushed(g, resFlake),
     printed |-> PrintNonFlakes(nf, resFlake) \o PrintFlakes(g, resFlake)]

InitDeps ==
    /\ RegistryIdle /\ UpdateIdle /\ ProcsIdle
    /\ flakeDeps \in ResolvedGraphs
    /\ \E owners \in SUBSET NonFlakeOwners :
           nonFlakeDeps = [n \in Nodes |->
                              IF n \in owners THEN <<[name |-> "src", owner |-> n]>> ELSE <<>>]
    /\ todo = <<>> /\ emitted = <<>> /\ depsPc = "idle" /\ failedAt = "none"

DepsBegin(failNode) ==
    /\ depsPc = "idle"
    /\ \E out \in {CmdFlakeDeps_begin(flakeDeps, failNode)} :
        /\ depsPc' = out.pc
        /\ todo' = out.todo
        /\ failedAt' = out.failedAt
    /\ UNCHANGED <<flakeDeps, nonFlakeDeps, emitted>>
    /\ UNCHANGED <<registryVars, updateVars, procVars>>

DepsStep ==
    /\ depsPc = "run"
    /\ \E out \in {DepsIteration(todo, flakeDeps, nonFlakeDeps)} :
        /\ todo' = out.todo
        /\ emitted' = emitted \o out.printed
        /\ depsPc' = IF out.todo = <<>> THEN "done" ELSE "run"
    /\ UNCHANGED <<flakeDeps, nonFlakeDeps, failedAt>>
    /\ UNCHANGED <<registryVars, updateVars, procVars>>

NextDeps ==
    \/ \E failNode \in {"none"} \cup Nodes : DepsBegin(failNode)
    \/ DepsStep

SpecDeps == InitDeps /\ [][NextDeps]_vars

\* The loop runs without interruption until the queue is empty.
SpecDepsFair == SpecDeps /\ WF_vars(DepsStep)

(***************************************************************************)
(* Commands side by side.  Each command is its own process: it reads the   *)
(* User registry file (readRegistry), works on its copy, where a pin waits *)
(* for the evaluator, and writes the copy back (writeRegistry).  Nothing   *)
(* in the commands locks the file between the two.                         *)
(***************************************************************************)
ProcIds == {1, 2}

\* The targets the commands side by side add, and find in the registries at first.
ProcUris == {<<"github:o/r">>, <<"github:o/r", 1>>}
ProcTargets == {FlakeRef(u) : u \in ProcUris}

\* The commands a process may run.
ProcCommands ==
    {[cmd |-> "add", alias |-> a, uri |-> u, fetchOk |-> TRUE] :
        a \in AliasArgs, u \in ProcUris}
    \cup {[cmd |-> "remove", alias |-> a, uri |-> <<>>, fetchOk |-> TRUE] : a \in AliasArgs}
    \cup {[cmd |-> "pin", alias |-> a, uri |-> <<>>, fetchOk |-> ok] :
              a \in AliasArgs, ok \in BOOLEAN}

\* A process before its command has read the registry.
Started(c) ==
    [cmd |-> c.cmd, alias |-> c.alias, uri |-> c.uri, fetchOk |-> c.fetchOk,
     pc |-> "start", copy |-> writeRegistry(EmptyRegistry), written |-> FALSE,
     error |-> "none"]

\* What the command of the process makes of the registry it read.
RunOnCopy(proc, global, hd) ==
    IF proc.cmd = "add" THEN CmdFlakeAdd_run(proc.copy, proc.alias, proc.uri)
    ELSE IF proc.cmd = "remove" THEN CmdFlakeRemove_run(proc.copy, proc.alias)
    ELSE CmdFlakePin_run(proc.copy, global, hd, proc.alias, proc.fetchOk)

InitProcs ==
    /\ userFile \in {writeRegistry(reg) : reg \in Registries(RegistryKeys, ProcTargets)}
    /\ globalReg \in Registries(RegistryKeys, ProcTargets)
    /\ head = InitialHead
    /\ last = NoCommand
    /\ overrides = EmptyRegistry
    /\ query = FlakeRef(<<"a">>)
    /\ result = NoResult
    /\ UpdateIdle /\ DepsIdle
    /\ procs \in [ProcIds -> {Started(c) : c \in ProcCommands}]
    /\ overlapped = FALSE

\* readRegistry(getUserRegistryPath()): the process takes its copy of the file.
ProcRead(p) ==
    /\ procs[p].pc = "start"
    /\ procs' = [procs EXCEPT ![p].pc = "read", ![p].copy = userFile]
    /\ overlapped' = (overlapped \/ \E q \in ProcIds \ {p} : procs[q].pc = "read")
    /\ UNCHANGED <<userFile, globalReg, head, last, overrides, query, result>>
    /\ UNCHANGED <<updateVars, depsVars>>

\* The rest of the command: the change to the copy, and writeRegistry unless the
\* command has thrown.
ProcWrite(p) ==
    /\ procs[p].pc = "read"
    /\ \E out \in {RunOnCopy(procs[p], globalReg, head)} :
        /\ userFile' = IF out.written THEN out.file ELSE userFile
        /\ procs' = [procs EXCEPT ![p].pc = "done", ![p].written = out.written,
                                  ![p].error = out.error]
    /\ UNCHANGED <<globalReg, head, last, overrides, query, result, overlapped>>
    /\ UNCHANGED <<updateVars, depsVars>>

NextProcs ==
    \/ \E p \in ProcIds : ProcRead(p)
    \/ \E p \in ProcIds : ProcWrite(p)

SpecProcs == InitProcs /\ [][NextProcs]_vars

(***************************************************************************)
(* Alias resolution over registries that also hold entries keyed by direct *)
(* references (nothing keeps add from being given a URI or a path as its   *)
(* alias).                                                                 *)
(***************************************************************************)
DirectKeys == {FlakeRef(<<"a">>), FlakeRef(<<"github:o/r">>), FlakeRef(<<"/p">>)}
DirectKeyTargets == {FlakeRef(<<"github:o/r">>), FlakeRef(<<"github:o/r", 1>>)}

InitDirectKeys ==
    /\ overrides \in Registries(DirectKeys, DirectKeyTargets)
    /\ userFile \in {writeRegistry(reg) : reg \in Registries(DirectKeys, DirectKeyTargets)}
    /\ globalReg \in Registries(DirectKeys, DirectKeyTargets)
    /\ query \in FlakeRefs
    /\ result = NoResult
    /\ head = InitialHead
    /\ last = NoCommand
    /\ UpdateIdle /\ DepsIdle /\ ProcsIdle

SpecDirectKeys == InitDirectKeys /\ [][NextResolve]_vars

(***************************************************************************)
(* What the claims speak of.                                               *)
(***************************************************************************)
\* The registries resolveAlias was given.
Layers == getFlakeRegistries(overrides, userFile, globalReg)

\* The User registry the last command found, and the one it left.
Before == readRegistry(last.pre)
After == readRegistry(userFile)
Key == FlakeRef(last.alias)

\* The registries pin's evaluator resolves against: no overrides are given to pin.
PinLayers == getFlakeRegistries(EmptyRegistry, last.pre, last.global)

\* A concrete reference: not an alias, and the revision of a URI populated.
Concrete(ref) == ref.kind # "Alias" /\ (ref.kind = "DirectURI" => ref.rev \in Revs)

\* Every entry but the one of the last command's alias is as the command found it.
OthersUnchanged ==
    /\ DOMAIN After \ {Key} = DOMAIN Before \ {Key}
    /\ \A k \in DOMAIN Before \ {Key} : After[k] = Before[k]

\* The records of a registry file that are keyed by the alias text.
RecordsOf(file, alias) == {i \in DOMAIN file : file[i].alias = alias}

\* The result follows the matched target: it is the target when that is direct, and
\* the resolution of the target when that is an alias (unless the depth ran out).
Follows(target) ==
    IF target.kind # "Alias" THEN result = Resolved(target)
    ELSE result.error = "RegistryCycleError" \/ result = resolveAlias(target, Layers, 0)

\* C1: resolveAlias probes Overrides, then User, then Global, and the first layer
\* holding an entry for the alias wins: when Overrides maps the alias its target is
\* used whatever User and Global hold; when Overrides has no entry and User has one,
\* the User target is used whatever Global holds.
C1_Precedence ==
    (result # NoResult /\ query.kind = "Alias") =>
        /\ find(overrides, query) => Follows(overrides[query])
        /\ (~find(overrides, query) /\ find(After, query)) => Follows(After[query])

\* Overrides and User map the alias to different direct targets and the Overrides
\* target was returned.
C1_Witness ==
    /\ result # NoResult /\ query.kind = "Alias"
    /\ find(overrides, query) /\ find(After, query) /\ find(globalReg, query)
    /\ overrides[query].kind # "Alias" /\ After[query].kind # "Alias"
    /\ overrides[query] # After[query] /\ After[query] # globalReg[query]
    /\ result = Resolved(overrides[query])

\* C2: a successful pin of an alias that only the Global registry has inserts
\* alias -> concrete reference of the Global target into the User registry and
\* persists it; the entries the User registry had are as they were, and the Global
\* registry is unchanged.
C2_PinGlobalOnly ==
    (last.cmd = "pin" /\ ~find(Before, Key) /\ find(last.global, Key) /\ last.error = "none") =>
        /\ last.written
        /\ DOMAIN After = DOMAIN Before \cup {Key}
        /\ After[Key] = getFlake(last.global[Key], PinLayers, last.head, TRUE).ref
        /\ Concrete(After[Key])
        /\ Cardinality(RecordsOf(userFile, last.alias)) = 1
        /\ OthersUnchanged
        /\ globalReg = last.global

\* A pin inserted an entry next to an entry the User registry already had.
C2_Witness ==
    /\ last.cmd = "pin" /\ ~find(Before, Key) /\ find(last.global, Key) /\ last.error = "none"
    /\ DOMAIN Before # {}
    /\ last.global[Key].rev = NoRev
    /\ find(After, Key) /\ After[Key].rev = 1

\* C3: a successful pin of an alias the User registry has resolves the User entry's
\* target and overwrites the entry with the concrete reference; the keys of the User
\* registry and its other entries are as they were, and the Global registry is not
\* looked up for the alias (its entry for the alias, if any, makes no difference)
\* and is unchanged.
C3_PinUserEntry ==
    (last.cmd = "pin" /\ find(Before, Key) /\ last.error = "none") =>
        /\ last.written
        /\ last.branch = "user"
        /\ DOMAIN After = DOMAIN Before
        /\ After[Key] = getFlake(Before[Key], PinLayers, last.head, TRUE).ref
        /\ Concrete(After[Key])
        /\ OthersUnchanged
        /\ userFile = CmdFlakePin_run(last.pre, erase(last.global, Key), last.head,
                                      last.alias, TRUE).file
        /\ globalReg = last.global

\* A pin rewrote a User entry although the Global registry maps the alias to a
\* reference that resolves to something else.
C3_Witness ==
    /\ last.cmd = "pin" /\ find(Before, Key) /\ last.error = "none"
    /\ find(last.global, Key)
    /\ Before[Key].rev = NoRev /\ After[Key] # Before[Key]
    /\ getFlake(last.global[Key], PinLayers, last.head, TRUE).error = "none"
    /\ getFlake(last.global[Key], PinLayers, last.head, TRUE).ref # After[Key]
    /\ Cardinality(DOMAIN Before) = 2

\* C4: a pin of an alias that neither the User nor the Global registry has fails
\* with UnknownAliasError and does not write the registry file: the file is the one
\* the pin found.
C4_PinUnknownAlias ==
    (last.cmd = "pin" /\ ~find(Before, Key) /\ ~find(last.global, Key)) =>
        /\ last.error = "UnknownAliasError"
        /\ ~last.written
        /\ userFile = last.pre

\* A pin of an unknown alias failed on a User registry that has entries.
C4_Witness ==
    /\ last.cmd = "pin" /\ ~find(Before, Key) /\ ~find(last.global, Key)
    /\ last.error = "UnknownAliasError"
    /\ userFile # <<>> /\ last.global # EmptyRegistry

\* C5: add is an upsert on the User registry: afterwards the file has exactly one
\* record for the alias, it maps the alias to the target, every entry of another
\* alias is as it was, and the Global registry is unchanged.
C5_AddUpserts ==
    (last.cmd = "add") =>
        /\ last.error = "none" /\ last.written
        /\ Cardinality(RecordsOf(userFile, last.alias)) = 1
        /\ \E i \in DOMAIN userFile : userFile[i] = [alias |-> last.alias, uri |-> last.uri]
        /\ DOMAIN After = DOMAIN Before \cup {Key}
        /\ After[Key] = FlakeRef(last.uri)
        /\ OthersUnchanged
        /\ globalReg = last.global

\* An add replaced the target of an alias the User registry already had, next to
\* an entry of another alias.
C5_Witness ==
    /\ last.cmd = "add"
    /\ find(Before, Key) /\ Before[Key] # FlakeRef(last.uri)
    /\ Cardinality(DOMAIN Before) = 2
    /\ After[Key] = FlakeRef(last.uri)

\* C6: remove deletes the entry of the alias from the User registry when there is
\* one and persists; when there is none the command still succeeds and the entries
\* are as they were; either way every entry of another alias is as it was.
C6_RemoveDeletes ==
    (last.cmd = "remove") =>
        /\ last.error = "none" /\ last.written
        /\ ~find(After, Key)
        /\ RecordsOf(userFile, last.alias) = {}
        /\ OthersUnchanged
        /\ ~find(Before, Key) => After = Before

\* A remove of an alias the User registry does not have succeeded and left the
\* entry of the other alias in place.
C6_Witness ==
    /\ last.cmd = "remove" /\ last.error = "none"
    /\ ~find(Before, Key)
    /\ DOMAIN Before # {} /\ After = Before

\* C7, as the spec states it: add then remove of the same alias leaves the User
\* registry file as it was before the add, whatever it held.
C7_AddRemoveRestoresAlways ==
    [][(last.cmd = "add" /\ Remove(last.alias)) => userFile' = last.pre]_vars

\* C7: add then remove of an alias the User registry had no entry for leaves the
\* User registry file as it was before the add.
C7_AddRemoveRestores ==
    [][(last.cmd = "add" /\ ~find(Before, Key) /\ Remove(last.alias))
          => userFile' = last.pre]_vars

\* An add has inserted an entry for an alias a non-empty User registry did not
\* have, and the remove of that alias gives back the file the add found.
C7_Witness ==
    /\ last.cmd = "add" /\ ~find(Before, Key)
    /\ last.pre # <<>> /\ userFile # last.pre
    /\ CmdFlakeRemove_run(userFile, last.alias).file = last.pre

\* C8: pin is idempotent: after a successful pin of an alias, with no upstream
\* change since, a second pin of the alias finds the entry the first one left in the
\* User registry (whether the first one rewrote or inserted it) and leaves the file
\* as it is.
C8_PinIdempotent ==
    [][(/\ last.cmd = "pin" /\ last.error = "none" /\ head = last.head
        /\ \E fetchOk \in BOOLEAN : Pin(last.alias, fetchOk))
          => (last'.branch = "user" /\ userFile' = userFile)]_vars

\* A successful pin ran on a User registry whose entry for the alias is the one a
\* pin from the Global registry leaves, at the same upstream revision, and left the
\* file as it was.
C8_Witness ==
    /\ last.cmd = "pin" /\ last.error = "none" /\ last.branch = "user"
    /\ find(last.global, Key) /\ last.global[Key].rev = NoRev
    /\ Before[Key] = getFlake(last.global[Key], PinLayers, last.head, TRUE).ref
    /\ Before[Key] # last.global[Key]
    /\ head = last.head
    /\ userFile = last.pre

\* C9: add is idempotent: an add that follows an add of the same alias and target
\* leaves the User registry file as the first one left it.
C9_AddIdempotent ==
    [][(last.cmd = "add" /\ Add(last.alias, last.uri)) => userFile' = userFile]_vars

\* An add ran on a User registry file of two records that an add of the same alias
\* and target leaves, and left it as it was.
C9_Witness ==
    /\ last.cmd = "add"
    /\ find(Before, Key) /\ Before[Key] = FlakeRef(last.uri)
    /\ Len(last.pre) = 2
    /\ userFile = last.pre

(***************************************************************************)
(* The chain of an alias, walked without a depth bound: the hops from a    *)
(* reference to the first reference that is direct or has no entry.        *)
(***************************************************************************)
Hop(ref) == Layers[FirstHolder(ref, Layers)][ref]

Ends(ref) == ref.kind # "Alias" \/ Holders(ref, Layers) = {}

RECURSIVE HopsToEnd(_, _)
\* The number of hops from ref to the end of its chain, -1 when there are more than fuel.
HopsToEnd(ref, fuel) ==
    IF Ends(ref) THEN 0
    ELSE IF fuel = 0 THEN -1
    ELSE LET h == HopsToEnd(Hop(ref), fuel - 1)
         IN  IF h = -1 THEN -1 ELSE h + 1

\* A chain over n aliases that has not ended after n hops has come back to an alias.
Cyclic(ref) == HopsToEnd(ref, Cardinality(AliasNames)) = -1

\* C10: resolveAlias ends with a result; on a cyclic chain, whatever layers hold its
\* entries, the result is RegistryCycleError, and on an acyclic chain of fewer hops
\* than the depth bound it is not.
C10_CycleDetected ==
    (result # NoResult) =>
        /\ result.error \in {"none", "UnresolvedAliasError", "RegistryCycleError"}
        /\ Cyclic(query) => result.error = "RegistryCycleError"
        /\ (~Cyclic(query) /\ HopsToEnd(query, Cardinality(AliasNames)) < MaxDepth)
              => result.error # "RegistryCycleError"

\* The chain a -> b -> a, one entry in Overrides and the other in User or Global,
\* gave RegistryCycleError.
C10_Witness ==
    /\ result.error = "RegistryCycleError"
    /\ query.kind = "Alias"
    /\ find(overrides, query) /\ overrides[query] # query
    /\ ~find(overrides, overrides[query])
    /\ Hop(overrides[query]) = query

\* C11: resolveAlias is the identity on references of kind Path or DirectURI: it
\* returns the reference unchanged and raises no error, whatever the three registries
\* hold, entries keyed by the reference itself included.
C11_IdentityOnDirect ==
    (result # NoResult /\ query.kind \in {"Path", "DirectURI"}) => result = Resolved(query)

\* A direct reference was returned unchanged although all three registries hold an
\* entry keyed by it, with another target.
C11_Witness ==
    /\ result # NoResult /\ query.kind \in {"Path", "DirectURI"}
    /\ find(overrides, query) /\ find(After, query) /\ find(globalReg, query)
    /\ overrides[query] # query /\ After[query] # query /\ globalReg[query] # query
    /\ result = Resolved(query)

RECURSIVE ChainEnd(_, _)
\* The reference the chain of ref ends in, walked for at most fuel hops.
ChainEnd(ref, fuel) ==
    IF Ends(ref) \/ fuel = 0 THEN ref ELSE ChainEnd(Hop(ref), fuel - 1)

\* The chain of the query ends, within the depth bound, in an alias no layer has.
Dangling ==
    /\ ~Cyclic(query)
    /\ HopsToEnd(query, Cardinality(AliasNames)) <= MaxDepth
    /\ ChainEnd(query, Cardinality(AliasNames)).kind = "Alias"

\* C12: resolveAlias fails with UnresolvedAliasError when the alias looked up, the
\* original one or one reached by following matched targets, has no entry in any of
\* the three layers; a reference it returns is never of kind Alias.
C12_UnresolvedAlias ==
    (result # NoResult) =>
        /\ Dangling => result = Failed("UnresolvedAliasError",
                                       ChainEnd(query, Cardinality(AliasNames)))
        /\ result.error = "none" => result.ref.kind # "Alias"

\* An alias with an entry led, over two layers, to an alias no layer has, and the
\* resolution failed with UnresolvedAliasError.
C12_Witness ==
    /\ result.error = "UnresolvedAliasError"
    /\ query.kind = "Alias" /\ ~Ends(query)
    /\ result.ref # query
    /\ Holders(result.ref, Layers) = {}

\* The text names a flake on the local file system.
LocalPath(uri) == uri[1] \in LocalLocators

\* C13: update runs the lock-file update exactly when the root reference is a local
\* path; for a remote URI or an alias it fails with NotUpdatableError and no lock
\* file is rewritten.
C13_UpdateOnlyPaths ==
    (lastUpdate # NoUpdate) =>
        /\ lastUpdate.ran <=> LocalPath(lastUpdate.uri)
        /\ ~LocalPath(lastUpdate.uri) =>
               lastUpdate.error = "NotUpdatableError" /\ lockFiles = lastUpdate.pre
        /\ (LocalPath(lastUpdate.uri) /\ lastUpdate.evalOk) =>
               /\ lastUpdate.error = "none"
               /\ lockFiles = [lastUpdate.pre EXCEPT ![lastUpdate.uri[1]] = @ + 1]

\* After lock files had been rewritten, update was given a remote URI with a
\* revision, failed, and left every lock file as it was.
C13_Witness ==
    /\ lastUpdate.uri = <<"github:o/r", 1>>
    /\ lastUpdate.error = "NotUpdatableError" /\ ~lastUpdate.ran
    /\ lockFiles["."] = 1 /\ lockFiles["/p"] = 1
    /\ lockFiles = lastUpdate.pre

\* The flake dependencies printed so far, in order.
EmittedFlakes == SelectSeq(emitted, LAMBDA e : e.kind = "flake")

\* C14: the listing is breadth-first: every flake dependency at depth d is emitted
\* before any flake dependency at depth d + 1.
C14_BreadthFirst ==
    \A i, j \in 1..Len(EmittedFlakes) :
        EmittedFlakes[i].depth < EmittedFlakes[j].depth => i < j

\* The root depends on depA and depB, depA on depC, depB on depC and depC on depD: the
\* listing is depA, depB, then depC for each parent, then depD twice.
C14_Witness ==
    /\ depsPc = "done"
    /\ flakeDeps = [n \in Nodes |->
                       IF n = Root THEN {"depA", "depB"}
                       ELSE IF n \in {"depA", "depB"} THEN {"depC"}
                       ELSE IF n = "depC" THEN {"depD"} ELSE {}]
    /\ [i \in 1..Len(EmittedFlakes) |-> EmittedFlakes[i].id]
           = <<"depA", "depB", "depC", "depC", "depD", "depD">>
    /\ [i \in 1..Len(EmittedFlakes) |-> EmittedFlakes[i].depth] = <<1, 1, 2, 2, 3, 3>>

\* C15: no partial graph is shown: when the resolution of any node fails, the graph
\* build aborts with that error and the listing emits no dependency at all, the
\* whole graph being resolved before the first emission.
C15_NoPartialGraph ==
    /\ failedAt # "none" => (depsPc = "failed" /\ emitted = <<>> /\ todo = <<>>)
    /\ (depsPc # "idle" /\ failedAt = "none") =>
           \A n \in Reach(flakeDeps, {Root}, Cardinality(Nodes)) :
               resolveFlake(flakeDeps, n).error # "none"

\* The resolution of depD, three levels below a root that has dependencies of both
\* kinds, failed, and nothing was listed.
C15_Witness ==
    /\ depsPc = "failed" /\ failedAt = "depD" /\ emitted = <<>>
    /\ flakeDeps[Root] = {"depA"} /\ flakeDeps["depA"] = {"depB"}
    /\ flakeDeps["depB"] = {"depD"}
    /\ nonFlakeDeps[Root] # <<>>

RECURSIVE Paths(_, _, _), PathsThrough(_, _, _)
\* The number of paths of g that lead from node to target.
Paths(g, node, target) ==
    IF node = target THEN 1 ELSE PathsThrough(g, g[node], target)

\* The number of paths of g that lead from one of kids to target.
PathsThrough(g, kids, target) ==
    IF kids = {} THEN 0
    ELSE LET kid == CHOOSE k \in kids : TRUE
         IN Paths(g, kid, target) + PathsThrough(g, kids \ {kid}, target)

\* How often the traversal visits the node: once for every path from the root.
Visits(node) == Paths(flakeDeps, Root, node)

\* How often the listing shows the flake, or the non-flake dependencies of the node.
TimesListed(kind, id) == Len(SelectSeq(emitted, LAMBDA e : e.kind = kind /\ e.id = id))

\* What a finished listing holds.
Listed ==
    /\ todo = <<>>
    /\ \A f \in FlakeIds : TimesListed("flake", f) = Visits(f)
    /\ \A n \in Nodes : \A i \in 1..Len(nonFlakeDeps[n]) :
           TimesListed("nonFlake", nonFlakeDeps[n][i]) = Visits(n)
    /\ TimesListed("flake", Root) = 0
    /\ Len(emitted) = Len(EmittedFlakes)
                      + Len(SelectSeq(emitted, LAMBDA e : e.kind = "nonFlake"))

\* C20: for every finite resolved graph the traversal terminates with an empty work
\* queue, having emitted every transitive flake dependency once per path that reaches
\* it (there is no visited set), every non-flake dependency of every node visited,
\* the root's included, and never the root flake itself.
C20_ListsEveryPath ==
    /\ [](depsPc = "done" => Listed)
    /\ (depsPc = "run") ~> (depsPc = "done")

\* depA and depB both depend on depC: depC is listed twice; the non-flake dependency
\* of the root is listed once and that of depA, reached over two paths, twice.
C20_Witness ==
    /\ depsPc = "done" /\ todo = <<>>
    /\ flakeDeps[Root] = {"depA", "depB"} /\ flakeDeps["depB"] = {"depA", "depC"}
    /\ flakeDeps["depA"] = {"depC"} /\ flakeDeps["depC"] = {}
    /\ TimesListed("flake", "depC") = 3 /\ TimesListed("flake", "depA") = 2
    /\ TimesListed("nonFlake", [name |-> "src", owner |-> Root]) = 1
    /\ TimesListed("nonFlake", [name |-> "src", owner |-> "depA"]) = 2

\* C16: no command writes the Global registry: after any sequence of add, remove and
\* pin, successful or failed, it holds what it held at first; only the User registry
\* changes.
C16_GlobalNeverWritten == [][globalReg' = globalReg]_vars

\* A pin took the alias from the Global registry and wrote the pinned reference to the
\* User registry; the Global registry still maps the alias to the floating target.
C16_Witness ==
    /\ last.cmd = "pin" /\ last.branch = "global" /\ last.written /\ last.error = "none"
    /\ After # Before
    /\ globalReg = last.global
    /\ globalReg[Key] # After[Key]

\* The Overrides registries with no entry for the alias.
OverridesWithout(alias) == Registries(RegistryKeys \ {alias}, InitialTargets)

\* The User registry maps the alias to a concrete reference.
Pinned(alias) == find(After, alias) /\ Concrete(After[alias])

\* The alias resolves to its entry in the User registry, whatever Overrides without
\* an entry for it holds.
ResolvesToEntry(alias) ==
    \A flags \in OverridesWithout(alias) :
        resolveAlias(alias, getFlakeRegistries(flags, userFile, globalReg), 0)
            = Resolved(After[alias])

\* C17: pin freezes an alias whatever layer it came from: after a successful pin(a),
\* as long as no add, remove or pin touches a and Overrides has no entry for a,
\* resolveAlias(a) returns the concrete reference the pin wrote, also when Global maps
\* a differently or upstream has moved since.
\* In the model: a successful pin leaves the alias pinned; a command on another alias
\* leaves every pinned entry as it found it (and UpstreamPush leaves the file alone);
\* and a pinned alias resolves to its entry.
C17_PinFreezes ==
    /\ (last.cmd = "pin" /\ last.error = "none") => Pinned(Key)
    /\ last.cmd # "none" =>
           \A alias \in RegistryKeys \ {Key} :
               (find(Before, alias) /\ Concrete(Before[alias])) =>
                   (find(After, alias) /\ After[alias] = Before[alias])
    /\ \A alias \in RegistryKeys : Pinned(alias) => ResolvesToEntry(alias)

\* An alias was pinned, upstream has moved since and Global maps the alias to a
\* floating reference: the alias still resolves to the pinned revision.
C17_Witness ==
    /\ last.cmd = "pin" /\ last.error = "none"
    /\ \E l \in UriLocators : head[l] # last.head[l] /\ After[Key].rev = last.head[l]
    /\ find(globalReg, Key) /\ globalReg[Key] # After[Key]
    /\ Pinned(Key) /\ ResolvesToEntry(Key)

\* C19: a pin whose evaluator or fetch step fails leaves the persisted User registry
\* as it was, in the branch that updates a User entry and in the branch that inserts
\* one from Global: the failure aborts the command with no write.
C19_FailedPinWritesNothing ==
    (last.cmd = "pin" /\ last.branch \in {"user", "global"} /\ last.error # "none") =>
        (~last.written /\ userFile = last.pre)

\* A pin that took the alias from the Global registry failed to fetch the flake, and
\* the User registry, which has an entry for another alias, is as it was.
C19_Witness ==
    /\ last.cmd = "pin" /\ last.branch = "global" /\ last.error = "FetchError"
    /\ ~last.written /\ userFile = last.pre
    /\ After # EmptyRegistry /\ ~find(After, Key)

\* Every command has finished.
AllDone == \A p \in ProcIds : procs[p].pc = "done"

\* The User registry shows the update of the process's command.
UpdateKept(p) ==
    LET alias == FlakeRef(procs[p].alias) IN
    IF procs[p].cmd = "add" THEN find(After, alias) /\ After[alias] = FlakeRef(procs[p].uri)
    ELSE IF procs[p].cmd = "remove" THEN ~find(After, alias)
    ELSE procs[p].error = "none" => Pinned(alias)

\* The commands are about different aliases, so neither update replaces the other.
DifferentAliases == \A p, q \in ProcIds : p # q => procs[p].alias # procs[q].alias

\* C18: a command reads the User registry, changes its copy and writes it back, with
\* no lock: two commands side by side (two adds for different aliases, or an add
\* between the read and the write of a pin) can both finish with the update of one
\* missing; when the commands run one after the other no update is lost.
C18_SerializedKeepsUpdates ==
    (AllDone /\ ~overlapped /\ DifferentAliases) => \A p \in ProcIds : UpdateKept(p)

\* Two adds for different aliases both read the registry before either wrote: both
\* have finished, both wrote, and the registry lacks the entry of the first.
C18_Witness ==
    /\ AllDone /\ overlapped /\ DifferentAliases
    /\ \A p \in ProcIds : procs[p].cmd = "add" /\ procs[p].written
    /\ ~UpdateKept(1) /\ UpdateKept(2)

\* An add ran between the read and the write of a successful pin of another alias:
\* both have finished and the added entry is missing.
C18_PinOverwritesAdd ==
    /\ AllDone /\ overlapped /\ DifferentAliases
    /\ procs[1].cmd = "pin" /\ procs[1].written /\ procs[1].error = "none"
    /\ procs[2].cmd = "add" /\ procs[2].written /\ procs[2].copy = procs[1].copy
    /\ ~UpdateKept(2) /\ UpdateKept(1)

====
